---- MODULE Spec2Model ----
(***************************************************************************)
(* Booking and payment lifecycle of the driver-for-hire marketplace        *)
(* (backend/routes/booking.js, backend/routes/payment.js and the tracking  *)
(* routes).                                                                *)
(*                                                                         *)
(* A request handler is a process; it runs one database statement per step *)
(* ("await query(...)", "await connection.execute(...)") and the handlers  *)
(* of concurrent requests interleave between statements.  The checks a     *)
(* handler makes on a row it has just read belong to the step that reads   *)
(* it.  Inside transaction(...) a statement reads the committed tables,    *)
(* a written row stays locked and its new value invisible to the other     *)
(* requests until the COMMIT; the last statement of a transaction is one   *)
(* step with the COMMIT, and a statement that fails rolls the transaction  *)
(* back.  A read of columns that never change (the booking's price and     *)
(* owner) is folded into the next statement.                               *)
(* Amounts are integers (currency units), dates are day numbers.           *)
(***************************************************************************)
EXTENDS Integers, Sequences, FiniteSets, TLC

VARIABLES drivers, bookings, payments, notifications, tracking, reviews, procs

vars == <<drivers, bookings, payments, notifications, tracking, reviews, procs>>

(* ---------------------------- bounds ----------------------------------- *)
MaxBookings == 2      \* rows the bookings table may hold
MaxDay == 2           \* dates are the days 0..MaxDay
MaxPayments == 2      \* rows the payments table may hold
MaxReviews == 2       \* rows the reviews table may hold

(* ---------------------------- accounts --------------------------------- *)
\* the users table: two customers, the accounts of the two drivers, an admin
UserIds == {1, 2}
DriverUserIds == {3, 4}
AdminIds == {5}
RoleOf(u) == IF u \in UserIds THEN "user"
             ELSE IF u \in DriverUserIds THEN "driver" ELSE "admin"

Procs == {1, 2}
Days == 0..MaxDay
Today == 1
\* the server's local time is UtcOffset hours ahead of UTC (WIB)
UtcOffset == 7
DriverIdInputs == {1, 2, 3}
Statuses == {"pending", "confirmed", "ongoing", "completed", "cancelled"}
\* PATCH /bookings/:id/status declares body('status').isIn([...]) and never reads
\* validationResult(req): every status string reaches the handler
StatusInputs == Statuses \cup {"other"}

NoRow == [id |-> 0]
Idle == [op |-> "none", pc |-> "idle", loc |-> NoRow, res |-> 0, msg |-> ""]
\* the handler has answered with HTTP status `code` and the message `msg`
Refused(op, code, msg) ==
    [op |-> op, pc |-> "idle", loc |-> NoRow, res |-> code, msg |-> msg]
\* the handler has answered with HTTP status `code`
Done(op, code) == Refused(op, code, "")
Free(p) == procs[p].pc = "idle"
At(p, op, pc) == procs[p].op = op /\ procs[p].pc = pc
InFlight(op) == Cardinality({p \in Procs : procs[p].op = op /\ procs[p].pc # "idle"})

\* transaction(callback): what a statement of the callback writes is seen by the
\* other connections only after the COMMIT, and not at all after a ROLLBACK
VisibleBeforeCommitAuto(op) == TRUE

VisibleBeforeCommit(op) == FALSE

Notify(user_id, title) == notifications \cup {<<user_id, title>>}

\* the ids a request may name: those of the stored rows and one that is not stored
BookingIdInputs == 1..(Len(bookings) + 1)
PaymentIdInputs == 1..(Len(payments) + 1)

(* ---------------------------- booking.js ------------------------------- *)
validTransitionsLoose(s) ==
    CASE s = "pending" -> {"confirmed", "ongoing", "cancelled"}
      [] s = "confirmed" -> {"ongoing", "cancelled"}
      [] s = "ongoing" -> {"completed", "cancelled"}
      [] s = "completed" -> {}
      [] s = "cancelled" -> {}

validTransitions(s) ==
    CASE s = "pending" -> {"confirmed", "cancelled"}
      [] s = "confirmed" -> {"ongoing", "cancelled"}
      [] s = "ongoing" -> {"completed", "cancelled"}
      [] s = "completed" -> {}
      [] s = "cancelled" -> {}

Between(x, lo, hi) == lo <= x /\ x <= hi

\* the query without its two clauses for a request inside a stored range
ConflictingEndpoints(b, driver_id, s, e) ==
    /\ b.driver_id = driver_id
    /\ b.status_booking \notin {"cancelled", "completed"}
    /\ \/ Between(b.tanggal_mulai, s, e)
       \/ Between(b.tanggal_selesai, s, e)

\* the WHERE clause of the conflictingBookings query
Conflicting(b, driver_id, s, e) ==
    /\ b.driver_id = driver_id
    /\ b.status_booking \notin {"cancelled", "completed"}
    /\ \/ Between(b.tanggal_mulai, s, e)
       \/ Between(b.tanggal_selesai, s, e)
       \/ Between(s, b.tanggal_mulai, b.tanggal_selesai)
       \/ Between(e, b.tanggal_mulai, b.tanggal_selesai)

conflictingBookings(driver_id, s, e) ==
    {i \in 1..Len(bookings) : Conflicting(bookings[i], driver_id, s, e)}

\* the two forms body('tanggal_..').isDate() lets through
DateForms == {"YYYY-MM-DD", "YYYY/MM/DD"}

\* new Date(string), in hours since 00:00 UTC of day 0: the form YYYY-MM-DD is
\* midnight UTC, the form YYYY/MM/DD is midnight of the server's local time
NewDate(day, form) ==
    IF form = "YYYY-MM-DD" THEN 24 * day ELSE 24 * day - UtcOffset

\* new Date() with setHours(0, 0, 0, 0): midnight of the server's local time
today == 24 * Today - UtcOffset

\* the check that looks at the start date only
DateCheckStartOnly(startDate, endDate) ==
    IF startDate < today THEN "Tanggal mulai tidak boleh di masa lalu"
    ELSE ""

\* the message of the date validation ("": the dates pass)
DateCheck(startDate, endDate) ==
    IF startDate < today THEN "Tanggal mulai tidak boleh di masa lalu"
    ELSE IF endDate < startDate THEN "Tanggal selesai harus setelah tanggal mulai"
    ELSE ""

\* Math.ceil(timeDiff / (1000 * 3600 * 24)) + 1, for endDate >= startDate
totalHari(startDate, endDate) == ((endDate - startDate) + 23) \div 24 + 1

\* the row INSERT INTO bookings stores; payment_status takes the column default
NewBooking(id, user_id, driver_id, s, e, hari, harga) ==
    [id |-> id, user_id |-> user_id, driver_id |-> driver_id,
     tanggal_mulai |-> s, tanggal_selesai |-> e,
     total_hari |-> hari, harga_per_hari |-> harga,
     total_harga |-> hari * harga,
     status_booking |-> "pending", payment_status |-> "unpaid",
     catatan_khusus |-> ""]

\* the row stored for a request that gives both dates in the form YYYY-MM-DD
DashBooking(id, user_id, driver_id, s, e, harga) ==
    NewBooking(id, user_id, driver_id, s, e,
               totalHari(NewDate(s, "YYYY-MM-DD"), NewDate(e, "YYYY-MM-DD")), harga)

\* a status update that also takes the driver's present price into the booking
SetStatusRepriced(id, status) ==
    [bookings EXCEPT ![id].status_booking = status,
                     ![id].harga_per_hari = drivers[bookings[id].driver_id].harga_per_hari,
                     ![id].total_harga =
                         bookings[id].total_hari * drivers[bookings[id].driver_id].harga_per_hari]

\* UPDATE bookings SET status_booking = ? WHERE id = ?
SetStatus(id, status) == [bookings EXCEPT ![id].status_booking = status]

\* the lookup without its condition on status_verifikasi
AvailableDriverUnverified(d) ==
    /\ d \in DOMAIN drivers
    /\ drivers[d].is_available

\* SELECT ... FROM drivers WHERE id = ? AND status_verifikasi = 'verified' AND is_available = 1
AvailableDriver(d) ==
    /\ d \in DOMAIN drivers
    /\ drivers[d].status_verifikasi = "verified"
    /\ drivers[d].is_available

\* POST /bookings with the dates written in the given forms: date validation, then
\* the transaction opens with the driver lookup
CreateRequest(p, forms) ==
    /\ Free(p)
    /\ Len(bookings) + InFlight("create") < MaxBookings
    /\ \E u \in UserIds, d \in DriverIdInputs, s \in Days, e \in Days,
          fs \in forms, fe \in forms :
         LET startDate == NewDate(s, fs)
             endDate == NewDate(e, fe)
         IN procs' = [procs EXCEPT ![p] =
            IF DateCheck(startDate, endDate) # ""
            THEN Refused("create", 400, DateCheck(startDate, endDate))
            ELSE IF ~AvailableDriver(d) THEN Refused("create", 500, "Driver tidak tersedia")
            ELSE [op |-> "create", pc |-> "tx_conflict", res |-> 0, msg |-> "",
                  loc |-> [user_id |-> u, driver_id |-> d, tanggal_mulai |-> s,
                           tanggal_selesai |-> e,
                           totalHari |-> totalHari(startDate, endDate),
                           driver_user_id |-> drivers[d].user_id,
                           harga_per_hari |-> drivers[d].harga_per_hari]]]
    /\ UNCHANGED <<drivers, bookings, payments, notifications, tracking, reviews>>

\* POST /bookings with both dates in the form YYYY-MM-DD
CreateBegin(p) == CreateRequest(p, {"YYYY-MM-DD"})

\* POST /bookings with each date in either form
CreateBeginAnyForm(p) == CreateRequest(p, DateForms)

\* SELECT * FROM bookings WHERE driver_id = ? AND status_booking NOT IN (..) AND (overlap)
CreateSelectConflicts(p) ==
    /\ At(p, "create", "tx_conflict")
    /\ LET a == procs[p].loc
       IN procs' = [procs EXCEPT ![p] =
            IF conflictingBookings(a.driver_id, a.tanggal_mulai, a.tanggal_selesai) # {}
            THEN Refused("create", 500, "Driver sudah dibooking")
            ELSE [@ EXCEPT !.pc = "tx_insert"]]
    /\ UNCHANGED <<drivers, bookings, payments, notifications, tracking, reviews>>

\* the bookings table with the row of request p appended
WithBookingOf(p) ==
    LET a == procs[p].loc
    IN Append(bookings,
              NewBooking(Len(bookings) + 1, a.user_id, a.driver_id, a.tanggal_mulai,
                         a.tanggal_selesai, a.totalHari, a.harga_per_hari))

\* INSERT INTO bookings (.., 'pending')
CreateInsert(p) ==
    /\ At(p, "create", "tx_insert")
    /\ bookings' = IF VisibleBeforeCommit("create") THEN WithBookingOf(p) ELSE bookings
    /\ procs' = [procs EXCEPT ![p].pc = "tx_notify"]
    /\ UNCHANGED <<drivers, payments, notifications, tracking, reviews>>

\* INSERT INTO notifications (driver.user_id, 'Booking Baru'), COMMIT, 201
CreateNotify(p) ==
    /\ At(p, "create", "tx_notify")
    /\ bookings' = IF VisibleBeforeCommit("create") THEN bookings ELSE WithBookingOf(p)
    /\ notifications' = Notify(procs[p].loc.driver_user_id, "Booking Baru")
    /\ procs' = [procs EXCEPT ![p] = Done("create", 201)]
    /\ UNCHANGED <<drivers, payments, tracking, reviews>>

\* a statement of the transaction fails: the error leaves the callback, the
\* transaction is rolled back and the catch answers 500 with the error's message
CreateAbort(p) ==
    /\ procs[p].op = "create" /\ procs[p].pc \in {"tx_conflict", "tx_insert", "tx_notify"}
    /\ procs' = [procs EXCEPT ![p] = Refused("create", 500, "store error")]
    /\ UNCHANGED <<drivers, bookings, payments, notifications, tracking, reviews>>

\* the route's guard: the caller's role is driver or admin
isDriverOrAdmin(u) == RoleOf(u) \in {"driver", "admin"}

\* req.body.reason: absent, or a text
Reasons == {"", "berhalangan"}

\* the check without the comparison of the caller with the booking's driver
StatusCheckNoOwner(u, id, status) ==
    IF id > Len(bookings) THEN 404
    ELSE IF status \notin validTransitions(bookings[id].status_booking) THEN 400
    ELSE 0

\* PATCH /bookings/:id/status: what the handler decides on the row it has read
\* (0: go on to the UPDATE)
StatusCheck(u, id, status) ==
    IF id > Len(bookings) THEN 404
    ELSE IF RoleOf(u) = "driver" /\ drivers[bookings[id].driver_id].user_id # u THEN 403
    ELSE IF status \notin validTransitions(bookings[id].status_booking) THEN 400
    ELSE 0

\* PATCH /bookings/:id/status with the caller and the reason drawn from the given
\* sets: SELECT the booking, ownership check, validTransitions check
StatusRequest(p, callers, reasons) ==
    /\ Free(p)
    /\ \E u \in callers, id \in BookingIdInputs,
          status \in StatusInputs, reason \in reasons :
         procs' = [procs EXCEPT ![p] =
            IF ~isDriverOrAdmin(u) THEN Refused("status", 403, "isDriverOrAdmin")
            ELSE IF StatusCheck(u, id, status) # 0
            THEN Done("status", StatusCheck(u, id, status))
            ELSE [op |-> "status", pc |-> "update", res |-> 0, msg |-> "",
                  loc |-> [id |-> id, status |-> status, reason |-> reason,
                           status_booking |-> bookings[id].status_booking,
                           user_id |-> bookings[id].user_id]]]
    /\ UNCHANGED <<drivers, bookings, payments, notifications, tracking, reviews>>

\* PATCH /bookings/:id/status by any account, with or without a reason
StatusSelect(p) == StatusRequest(p, UserIds \cup DriverUserIds \cup AdminIds, Reasons)

\* PATCH /bookings/:id/status by a driver or the admin, without a reason
StatusSelectStaff(p) == StatusRequest(p, DriverUserIds \cup AdminIds, {""})

\* UPDATE bookings SET status_booking = ? WHERE id = ?
StatusUpdate(p) ==
    /\ At(p, "status", "update")
    /\ bookings' = SetStatus(procs[p].loc.id, procs[p].loc.status)
    /\ procs' = [procs EXCEPT ![p].pc = "notify"]
    /\ UNCHANGED <<drivers, payments, notifications, tracking, reviews>>

\* INSERT INTO notifications (booking.user_id, 'Update Booking', ...)
StatusNotify(p) ==
    /\ At(p, "status", "notify")
    /\ notifications' = Notify(procs[p].loc.user_id, "Update Booking")
    /\ procs' = [procs EXCEPT ![p] = Done("status", 200)]
    /\ UNCHANGED <<drivers, bookings, payments, tracking, reviews>>

\* a statement of the status update fails: the UPDATE and the INSERT of the
\* notification are separate query() calls outside any transaction, so a status
\* already written stays, and the catch answers 500
StatusAbort(p) ==
    /\ procs[p].op = "status" /\ procs[p].pc \in {"update", "notify"}
    /\ procs' = [procs EXCEPT ![p] = Done("status", 500)]
    /\ UNCHANGED <<drivers, bookings, payments, notifications, tracking, reviews>>

\* the check without the test of the booking's status
CancelCheckAnyStatus(u, id) ==
    IF id > Len(bookings) \/ bookings[id].user_id # u THEN 404
    ELSE 0

\* POST /bookings/:id/cancel: what the handler decides on the row it has read
CancelCheck(u, id) ==
    IF id > Len(bookings) \/ bookings[id].user_id # u THEN 404
    ELSE IF bookings[id].status_booking \notin {"pending", "confirmed"} THEN 400
    ELSE 0

\* POST /bookings/:id/cancel: SELECT the caller's booking, cancellable check
CancelSelect(p) ==
    /\ Free(p)
    /\ \E u \in UserIds, id \in BookingIdInputs :
         procs' = [procs EXCEPT ![p] =
            IF CancelCheck(u, id) # 0 THEN Done("cancel", CancelCheck(u, id))
            ELSE [op |-> "cancel", pc |-> "update", res |-> 0, msg |-> "", loc |-> [id |-> id]]]
    /\ UNCHANGED <<drivers, bookings, payments, notifications, tracking, reviews>>

\* UPDATE bookings SET status_booking = ?, catatan_khusus = CONCAT(.., ?) WHERE id = ?
\* is sent with the two values [reason, id] for its three placeholders: the store
\* refuses the statement and the handler's catch answers 500.
CancelUpdate(p) ==
    /\ At(p, "cancel", "update")
    /\ procs' = [procs EXCEPT ![p] = Done("cancel", 500)]
    /\ UNCHANGED <<drivers, bookings, payments, notifications, tracking, reviews>>

\* POST /bookings/:id/review: what the handler decides on its first SELECT
\* (bookings WHERE id = ? AND user_id = ? AND status_booking = "completed")
ReviewCheck(u, id) ==
    IF \/ id > Len(bookings)
       \/ bookings[id].user_id # u
       \/ bookings[id].status_booking # "completed"
    THEN 404
    ELSE 0

\* req.body.rating
Ratings == {1, 4}

\* POST /bookings/:id/review: SELECT the caller's completed booking
ReviewSelect(p) ==
    /\ Free(p)
    /\ Len(reviews) + InFlight("review") < MaxReviews
    /\ \E u \in UserIds, id \in BookingIdInputs, rating \in Ratings :
         procs' = [procs EXCEPT ![p] =
            IF ReviewCheck(u, id) # 0 THEN Done("review", ReviewCheck(u, id))
            ELSE [op |-> "review", pc |-> "existing", res |-> 0, msg |-> "",
                  loc |-> [id |-> id, user_id |-> u, rating |-> rating,
                           driver_id |-> bookings[id].driver_id,
                           avgRating |-> <<0, 1>>]]]
    /\ UNCHANGED <<drivers, bookings, payments, notifications, tracking, reviews>>

\* SELECT * FROM reviews WHERE booking_id = ?
existingReviews(id) == {i \in 1..Len(reviews) : reviews[i].booking_id = id}

\* the check for a review the booking already has
ReviewExisting(p) ==
    /\ At(p, "review", "existing")
    /\ procs' = [procs EXCEPT ![p] =
          IF existingReviews(procs[p].loc.id) # {} THEN Done("review", 400)
          ELSE [@ EXCEPT !.pc = "tx_insert"]]
    /\ UNCHANGED <<drivers, bookings, payments, notifications, tracking, reviews>>

\* the reviews table with the row of request p appended
WithReviewOf(p) ==
    LET a == procs[p].loc
    IN Append(reviews, [booking_id |-> a.id, user_id |-> a.user_id,
                        driver_id |-> a.driver_id, rating |-> a.rating])

\* INSERT INTO reviews (booking_id, user_id, driver_id, rating, komentar)
ReviewInsert(p) ==
    /\ At(p, "review", "tx_insert")
    /\ reviews' = IF VisibleBeforeCommit("review") THEN WithReviewOf(p) ELSE reviews
    /\ procs' = [procs EXCEPT ![p].pc = "tx_average"]
    /\ UNCHANGED <<drivers, bookings, payments, notifications, tracking>>

RECURSIVE SumRating(_, _)
SumRating(rows, ids) ==
    IF ids = {} THEN 0
    ELSE LET i == CHOOSE x \in ids : TRUE
         IN rows[i].rating + SumRating(rows, ids \ {i})

\* SELECT AVG(rating), COUNT(*) FROM reviews WHERE driver_id = ?, as the pair
\* <<sum, count>> that stands for the quotient sum / count
AvgRating(rows, driver_id) ==
    LET ids == {i \in 1..Len(rows) : rows[i].driver_id = driver_id}
    IN <<SumRating(rows, ids), Cardinality(ids)>>

\* the SELECT of the average reads the committed reviews and the row this
\* transaction has inserted
ReviewAverage(p) ==
    /\ At(p, "review", "tx_average")
    /\ procs' = [procs EXCEPT ![p].pc = "tx_update", ![p].loc.avgRating =
          AvgRating(IF VisibleBeforeCommit("review") THEN reviews ELSE WithReviewOf(p),
                    procs[p].loc.driver_id)]
    /\ UNCHANGED <<drivers, bookings, payments, notifications, tracking, reviews>>

\* UPDATE drivers SET rating = ?, total_review = ? WHERE id = ?, COMMIT, 201
ReviewUpdate(p) ==
    /\ At(p, "review", "tx_update")
    /\ reviews' = IF VisibleBeforeCommit("review") THEN reviews ELSE WithReviewOf(p)
    /\ drivers' = [drivers EXCEPT ![procs[p].loc.driver_id].rating = procs[p].loc.avgRating,
                                   ![procs[p].loc.driver_id].total_review =
                                        procs[p].loc.avgRating[2]]
    /\ procs' = [procs EXCEPT ![p] = Done("review", 201)]
    /\ UNCHANGED <<bookings, payments, notifications, tracking>>

\* a statement of the transaction fails: the transaction is rolled back and the
\* catch answers 500
ReviewAbort(p) ==
    /\ procs[p].op = "review" /\ procs[p].pc \in {"tx_insert", "tx_average", "tx_update"}
    /\ procs' = [procs EXCEPT ![p] = Done("review", 500)]
    /\ UNCHANGED <<drivers, bookings, payments, notifications, tracking, reviews>>

\* every account that can send a request
AllUserIds == UserIds \cup DriverUserIds \cup AdminIds

\* the handler has answered with HTTP status `code` and the body `data`
Answered(op, code, data) ==
    [op |-> op, pc |-> "idle", loc |-> data, res |-> code, msg |-> ""]

\* the check that lets every driver account through
DetailCheckNoDriver(u, id) ==
    IF id > Len(bookings) THEN 404
    ELSE IF RoleOf(u) = "user" /\ bookings[id].user_id # u THEN 403
    ELSE 0

\* GET /bookings/:id: what the handler decides on the row it has read (0: go on)
DetailCheck(u, id) ==
    IF id > Len(bookings) THEN 404
    ELSE IF RoleOf(u) = "user" /\ bookings[id].user_id # u THEN 403
    ELSE IF RoleOf(u) = "driver" /\ drivers[bookings[id].driver_id].user_id # u THEN 403
    ELSE 0

\* GET /bookings/:id: SELECT the booking with its driver's user id, access check
DetailSelect(p) ==
    /\ Free(p)
    /\ \E u \in AllUserIds, id \in BookingIdInputs :
         procs' = [procs EXCEPT ![p] =
            IF DetailCheck(u, id) # 0
            THEN Answered("detail", DetailCheck(u, id), [id |-> id, caller |-> u])
            ELSE [op |-> "detail", pc |-> "payments", res |-> 0, msg |-> "",
                  loc |-> [id |-> id, caller |-> u]]]
    /\ UNCHANGED <<drivers, bookings, payments, notifications, tracking, reviews>>

\* SELECT * FROM payments WHERE booking_id = ? (and the last tracking row of an
\* ongoing booking), then the booking is sent with its payments
DetailPayments(p) ==
    /\ At(p, "detail", "payments")
    /\ procs' = [procs EXCEPT ![p] =
          Answered("detail", 200,
                   [id |-> procs[p].loc.id, caller |-> procs[p].loc.caller,
                    payments |-> {i \in 1..Len(payments) :
                                    payments[i].booking_id = procs[p].loc.id}])]
    /\ UNCHANGED <<drivers, bookings, payments, notifications, tracking, reviews>>

\* the drivers table: both drivers verified and available, not yet reviewed
InitDrivers ==
    (1 :> [user_id |-> 3, status_verifikasi |-> "verified", is_available |-> TRUE,
           harga_per_hari |-> 1, rating |-> <<0, 1>>, total_review |-> 0])
    @@ (2 :> [user_id |-> 4, status_verifikasi |-> "verified", is_available |-> TRUE,
           harga_per_hari |-> 5, rating |-> <<0, 1>>, total_review |-> 0])

\* the booking the payment requests are about: customer 1, driver 1, two days
PayBooking == DashBooking(1, 1, 1, Today, Today + 1, InitDrivers[1].harga_per_hari)

\* a request pays up to the price of the booking
Amounts == 0..PayBooking.total_harga

(* ---------------------------- driver routes ---------------------------- *)
\* the prices a driver asks per day
Prices == {1, 5}

\* a field of the request body: <<>> when it is undefined, <<v>> when it is v
Undefined == <<>>
Given(field) == field # Undefined
Values(S) == {<<v>> : v \in S}

\* SELECT id FROM drivers WHERE user_id = ?
DriverIdsOf(u) == {d \in DOMAIN drivers : drivers[d].user_id = u}

\* PUT /drivers/profile with harga_per_hari and is_available drawn from the given
\* sets: SELECT the caller's driver id, then the list of columns to update
ProfileRequest(p, prices, avails) ==
    /\ Free(p)
    /\ \E u \in DriverUserIds, harga_per_hari \in prices, is_available \in avails :
         procs' = [procs EXCEPT ![p] =
            IF DriverIdsOf(u) = {} THEN Done("profile", 404)
            ELSE IF ~Given(harga_per_hari) /\ ~Given(is_available)
            THEN Done("profile", 400)
            ELSE [op |-> "profile", pc |-> "update", res |-> 0, msg |-> "",
                  loc |-> [id |-> CHOOSE d \in DriverIdsOf(u) : TRUE,
                           harga_per_hari |-> harga_per_hari,
                           is_available |-> is_available]]]
    /\ UNCHANGED <<drivers, bookings, payments, notifications, tracking, reviews>>

\* PUT /drivers/profile that changes the price, or nothing
ProfileSelectPrice(p) == ProfileRequest(p, Values(Prices) \cup {Undefined}, {Undefined})

\* PUT /drivers/profile that changes the availability, or nothing
ProfileSelectAvailable(p) ==
    ProfileRequest(p, {Undefined}, Values(BOOLEAN) \cup {Undefined})

\* UPDATE drivers SET harga_per_hari = ?, is_available = ? WHERE id = ?
ProfileUpdate(p) ==
    /\ At(p, "profile", "update")
    /\ LET a == procs[p].loc
       IN drivers' = [drivers EXCEPT
             ![a.id].harga_per_hari =
                 IF Given(a.harga_per_hari) THEN a.harga_per_hari[1] ELSE @,
             ![a.id].is_available =
                 IF Given(a.is_available) THEN a.is_available[1] ELSE @]
    /\ procs' = [procs EXCEPT ![p] = Done("profile", 200)]
    /\ UNCHANGED <<bookings, payments, notifications, tracking, reviews>>

(* ---------------------------- tracking routes -------------------------- *)
\* POST /tracking/:bookingId/start: what the handler decides on the row it has read
StartCheck(u, id) ==
    IF id > Len(bookings) \/ bookings[id].status_booking # "confirmed" THEN 404
    ELSE IF drivers[bookings[id].driver_id].user_id # u THEN 403
    ELSE 0

\* POST /tracking/:bookingId/start: SELECT the confirmed booking, ownership check
StartSelect(p) ==
    /\ Free(p)
    /\ \E u \in DriverUserIds, id \in BookingIdInputs :
         procs' = [procs EXCEPT ![p] =
            IF StartCheck(u, id) # 0 THEN Done("start", StartCheck(u, id))
            ELSE [op |-> "start", pc |-> "update", res |-> 0, msg |-> "",
                  loc |-> [id |-> id, user_id |-> bookings[id].user_id]]]
    /\ UNCHANGED <<drivers, bookings, payments, notifications, tracking, reviews>>

\* UPDATE bookings SET status_booking = 'ongoing' WHERE id = ?
StartUpdate(p) ==
    /\ At(p, "start", "update")
    /\ bookings' = SetStatus(procs[p].loc.id, "ongoing")
    /\ procs' = [procs EXCEPT ![p].pc = "notify"]
    /\ UNCHANGED <<drivers, payments, notifications, tracking, reviews>>

\* INSERT INTO tracking (first point), INSERT INTO notifications (user_id, 'Driver Berangkat')
StartNotify(p) ==
    /\ At(p, "start", "notify")
    /\ tracking' = tracking \cup {procs[p].loc.id}
    /\ notifications' = Notify(procs[p].loc.user_id, "Driver Berangkat")
    /\ procs' = [procs EXCEPT ![p] = Done("start", 200)]
    /\ UNCHANGED <<drivers, bookings, payments, reviews>>

(* ---------------------------- payment.js ------------------------------- *)
PaymentTypes == {"dp", "full", "pelunasan"}
PaymentMethods == {"transfer", "cash", "e-wallet"}

RECURSIVE SumJumlah(_, _)
SumJumlah(rows, ids) ==
    IF ids = {} THEN 0
    ELSE LET i == CHOOSE x \in ids : TRUE
         IN rows[i].jumlah + SumJumlah(rows, ids \ {i})

\* SUM(jumlah) of the rows of a payments table WHERE booking_id = ? AND
\* status_payment = 'verified' (AND id != except)
VerifiedSum(rows, booking_id, except) ==
    SumJumlah(rows, {i \in 1..Len(rows) :
                       /\ rows[i].booking_id = booking_id
                       /\ rows[i].status_payment = "verified"
                       /\ i # except})

\* SELECT SUM(jumlah) AS total_paid FROM payments ...; an empty SUM is NULL, which
\* the handlers read as 0
TotalPaid(booking_id, except) == VerifiedSum(payments, booking_id, except)

\* the check that also refuses a deposit of exactly 30%
SubmitCheckDpAbove(u, booking_id, jumlah, payment_type, payment_method, bukti) ==
    IF booking_id > Len(bookings) \/ bookings[booking_id].user_id # u THEN 404
    ELSE IF payment_type = "dp" /\ 10 * jumlah <= 3 * bookings[booking_id].total_harga
    THEN 400
    ELSE IF /\ payment_type \in {"full", "pelunasan"}
            /\ jumlah < bookings[booking_id].total_harga - TotalPaid(booking_id, 0)
    THEN 400
    ELSE IF payment_method = "transfer" /\ ~bukti THEN 400
    ELSE 0

\* the check that subtracts every payment of the booking, whatever its status
SubmitCheckAnyStatus(u, booking_id, jumlah, payment_type, payment_method, bukti) ==
    IF booking_id > Len(bookings) \/ bookings[booking_id].user_id # u THEN 404
    ELSE IF payment_type = "dp" /\ 10 * jumlah < 3 * bookings[booking_id].total_harga
    THEN 400
    ELSE IF /\ payment_type \in {"full", "pelunasan"}
            /\ jumlah < bookings[booking_id].total_harga
                         - SumJumlah(payments, {i \in 1..Len(payments) :
                                                  payments[i].booking_id = booking_id})
    THEN 400
    ELSE IF payment_method = "transfer" /\ ~bukti THEN 400
    ELSE 0

\* POST /payments: what the handler decides before the INSERT (0: go on)
\* jumlah < total_harga * 0.3 is compared in tenths
SubmitCheck(u, booking_id, jumlah, payment_type, payment_method, bukti) ==
    IF booking_id > Len(bookings) \/ bookings[booking_id].user_id # u THEN 404
    ELSE IF payment_type = "dp" /\ 10 * jumlah < 3 * bookings[booking_id].total_harga
    THEN 400
    ELSE IF /\ payment_type \in {"full", "pelunasan"}
            /\ jumlah < bookings[booking_id].total_harga - TotalPaid(booking_id, 0)
    THEN 400
    ELSE IF payment_method = "transfer" /\ ~bukti THEN 400
    ELSE 0

\* POST /payments: the message of a 400 answer
SubmitMessage(booking_id, jumlah, payment_type, payment_method, bukti) ==
    IF payment_type = "dp" /\ 10 * jumlah < 3 * bookings[booking_id].total_harga
    THEN "DP minimal"
    ELSE IF /\ payment_type \in {"full", "pelunasan"}
            /\ jumlah < bookings[booking_id].total_harga - TotalPaid(booking_id, 0)
    THEN "Sisa pembayaran"
    ELSE "Bukti transfer harus diupload"

\* POST /payments with the amount, the method and the proof drawn from the given
\* sets: SELECT the caller's booking, minimum amount, proof of transfer
SubmitRequest(p, amounts, methods, proofs) ==
    /\ Free(p)
    /\ Len(payments) + InFlight("submit") < MaxPayments
    /\ \E u \in UserIds, b \in BookingIdInputs :
         IF b > Len(bookings) \/ bookings[b].user_id # u
         THEN procs' = [procs EXCEPT ![p] = Done("submit", 404)]
         ELSE \E j \in amounts, t \in PaymentTypes, m \in methods, bukti \in proofs :
                procs' = [procs EXCEPT ![p] =
                   IF SubmitCheck(u, b, j, t, m, bukti) # 0
                   THEN Refused("submit", SubmitCheck(u, b, j, t, m, bukti),
                                SubmitMessage(b, j, t, m, bukti))
                   ELSE [op |-> "submit", pc |-> "insert", res |-> 0, msg |-> "",
                         loc |-> [booking_id |-> b, jumlah |-> j, payment_type |-> t,
                                  payment_method |-> m, bukti_transfer |-> bukti]]]
    /\ UNCHANGED <<drivers, bookings, payments, notifications, tracking, reviews>>

\* POST /payments by cash or by transfer with its proof
SubmitSelect(p) == SubmitRequest(p, Amounts, {"cash", "transfer"}, {TRUE})

\* POST /payments by any method, with or without a proof
SubmitSelectAny(p) == SubmitRequest(p, Amounts, PaymentMethods, BOOLEAN)

\* POST /payments of the whole price, by cash or by transfer with its proof
SubmitSelectWhole(p) ==
    SubmitRequest(p, {PayBooking.total_harga}, {"cash", "transfer"}, {TRUE})

\* the booking of the requests that probe the minimum amounts: two days at price 5
SubmitBooking == DashBooking(1, 1, 2, Today, Today + 1, InitDrivers[2].harga_per_hari)

\* amounts below and at 30% of its price, what is left after a deposit of 30%
\* (itself below the whole price) and the whole price
SubmitAmounts == {2, 3, 7, 10}

\* POST /payments with one of these amounts, by cash or by transfer with its proof
SubmitSelectBoundary(p) == SubmitRequest(p, SubmitAmounts, {"cash", "transfer"}, {TRUE})

\* INSERT INTO notifications SELECT d.user_id, 'Pembayaran Baru' ... of the booking's driver
NotifyDriverOf(booking_id) ==
    Notify(drivers[bookings[booking_id].driver_id].user_id, "Pembayaran Baru")

\* the UPDATE of the booking for a deposit or a settlement by any method
UpdatesBookingAnyMethod(payment_type, payment_method) ==
    payment_type \in {"dp", "pelunasan"}

\* the cash payment of a deposit or a settlement goes on to UPDATE bookings
UpdatesBooking(payment_type, payment_method) ==
    payment_type \in {"dp", "pelunasan"} /\ payment_method = "cash"

\* a payment that only a transfer leaves waiting for the admin
statusPaymentNotTransfer(payment_method) ==
    IF payment_method # "transfer" THEN "verified" ELSE "pending"

\* payment_method === 'cash' ? 'verified' : 'pending'
statusPayment(payment_method) ==
    IF payment_method = "cash" THEN "verified" ELSE "pending"

\* INSERT INTO payments (.., status_payment = cash ? 'verified' : 'pending'); when no
\* UPDATE bookings follows, the notification of the driver ends the handler
SubmitInsert(p) ==
    /\ At(p, "submit", "insert")
    /\ LET a == procs[p].loc
       IN /\ payments' = Append(payments,
                [booking_id |-> a.booking_id, jumlah |-> a.jumlah,
                 payment_type |-> a.payment_type, payment_method |-> a.payment_method,
                 bukti_transfer |-> a.bukti_transfer,
                 status_payment |-> statusPayment(a.payment_method),
                 verified_by |-> 0])
          /\ IF UpdatesBooking(a.payment_type, a.payment_method)
             THEN /\ procs' = [procs EXCEPT ![p].pc = "status", ![p].loc =
                        [booking_id |-> a.booking_id, payment_type |-> a.payment_type]]
                  /\ UNCHANGED notifications
             ELSE /\ procs' = [procs EXCEPT ![p] = Done("submit", 201)]
                  /\ notifications' = NotifyDriverOf(a.booking_id)
    /\ UNCHANGED <<drivers, bookings, tracking, reviews>>

\* UPDATE bookings SET payment_status = (dp ? 'dp_paid' : 'paid') WHERE id = ?,
\* then the notification of the driver
SubmitUpdateStatus(p) ==
    /\ At(p, "submit", "status")
    /\ bookings' = [bookings EXCEPT ![procs[p].loc.booking_id].payment_status =
            IF procs[p].loc.payment_type = "dp" THEN "dp_paid" ELSE "paid"]
    /\ notifications' = NotifyDriverOf(procs[p].loc.booking_id)
    /\ procs' = [procs EXCEPT ![p] = Done("submit", 201)]
    /\ UNCHANGED <<drivers, payments, tracking, reviews>>

\* a statement of submitPayment fails: the handler runs its statements by query(),
\* one by one and outside any transaction, so what the earlier ones wrote stays,
\* and the catch answers 500
SubmitAbort(p) ==
    /\ procs[p].op = "submit" /\ procs[p].pc \in {"insert", "status"}
    /\ procs' = [procs EXCEPT ![p] = Done("submit", 500)]
    /\ UNCHANGED <<drivers, bookings, payments, notifications, tracking, reviews>>

\* PATCH /payments/:paymentId/verify: decision on the row read, ignoring its status
VerifyCheckNoGuard(id) ==
    IF id > Len(payments) THEN 404 ELSE 0

\* PATCH /payments/:paymentId/verify: what the handler decides on the row it has read
VerifyCheck(id) ==
    IF id > Len(payments) THEN 404
    ELSE IF payments[id].status_payment # "pending" THEN 400
    ELSE 0

\* PATCH /payments/:paymentId/verify: SELECT p.*, b.* of the payment, pending check.
\* The columns of the row the handler uses later (booking_id, payment_type, jumlah,
\* the booking's total_harga and user_id) are never updated: they are read from
\* the tables where they are used.
VerifySelect(p) ==
    /\ Free(p)
    /\ \E u \in AdminIds, id \in PaymentIdInputs, status \in {"verified", "rejected"} :
         procs' = [procs EXCEPT ![p] =
            IF VerifyCheck(id) # 0 THEN Done("verify", VerifyCheck(id))
            ELSE [op |-> "verify", pc |-> "tx_update", res |-> 0, msg |-> "",
                  loc |-> [id |-> id, status |-> status, adminId |-> u,
                           totalPaid |-> 0]]]
    /\ UNCHANGED <<drivers, bookings, payments, notifications, tracking, reviews>>

PaymentRow(p) == payments[procs[p].loc.id]

\* the payments table after UPDATE payments SET status_payment = ?, verified_by = ?
DecidedPayments(p) ==
    [payments EXCEPT ![procs[p].loc.id].status_payment = procs[p].loc.status,
                     ![procs[p].loc.id].verified_by = procs[p].loc.adminId]

\* a transaction that has updated the payment row holds its lock until it commits
PaymentLocked(id) ==
    \E q \in Procs : At(q, "verify", "tx_commit") /\ procs[q].loc.id = id

\* UPDATE payments SET status_payment = ?, verified_by = ? WHERE id = ? (it waits for
\* the row's lock; the new value is visible at the commit) and, for a verified full
\* or pelunasan payment, SELECT SUM(jumlah) of the other verified payments
VerifyUpdate(p) ==
    /\ At(p, "verify", "tx_update")
    /\ ~PaymentLocked(procs[p].loc.id)
    /\ payments' = IF VisibleBeforeCommit("verify") THEN DecidedPayments(p) ELSE payments
    /\ procs' = [procs EXCEPT ![p].pc = "tx_commit", ![p].loc.totalPaid =
          IF procs[p].loc.status = "verified"
             /\ PaymentRow(p).payment_type \in {"full", "pelunasan"}
          THEN TotalPaid(PaymentRow(p).booking_id, procs[p].loc.id) + PaymentRow(p).jumlah
          ELSE 0]
    /\ UNCHANGED <<drivers, bookings, notifications, tracking, reviews>>

\* if (status === 'verified'): the decision that goes on to UPDATE bookings
WritesBookingAlways(status) == TRUE

WritesBooking(status) == status = "verified"

\* bookingPaymentStatus of a verified payment
bookingPaymentStatus(payment_type, totalPaid, total_harga) ==
    IF payment_type = "dp" THEN "dp_paid"
    ELSE IF totalPaid >= total_harga THEN "paid" ELSE "dp_paid"

\* UPDATE bookings SET payment_status = ?, INSERT INTO notifications, COMMIT
VerifyCommit(p) ==
    /\ At(p, "verify", "tx_commit")
    /\ LET a == procs[p].loc
           row == PaymentRow(p)
           b == bookings[row.booking_id]
       IN /\ payments' = DecidedPayments(p)
          /\ bookings' =
                IF WritesBooking(a.status)
                THEN [bookings EXCEPT ![row.booking_id].payment_status =
                        bookingPaymentStatus(row.payment_type, a.totalPaid, b.total_harga)]
                ELSE bookings
          /\ notifications' =
                Notify(b.user_id, IF a.status = "verified" THEN "Pembayaran Terverifikasi"
                                  ELSE "Pembayaran Ditolak")
    /\ procs' = [procs EXCEPT ![p] = Done("verify", 200)]
    /\ UNCHANGED <<drivers, tracking, reviews>>

\* a statement of the transaction fails: the transaction is rolled back and the
\* catch answers 500
VerifyAbort(p) ==
    /\ procs[p].op = "verify" /\ procs[p].pc \in {"tx_update", "tx_commit"}
    /\ procs' = [procs EXCEPT ![p] = Done("verify", 500)]
    /\ UNCHANGED <<drivers, bookings, payments, notifications, tracking, reviews>>

\* GET /payments/booking/:bookingId: what the handler decides on the row it has
\* read (0: go on)
HistoryCheck(u, bookingId) ==
    IF bookingId > Len(bookings) THEN 404
    ELSE IF /\ RoleOf(u) # "admin"
            /\ bookings[bookingId].user_id # u
            /\ drivers[bookings[bookingId].driver_id].user_id # u
    THEN 403
    ELSE 0

\* GET /payments/booking/:bookingId: SELECT the booking with its driver's user id,
\* access check
HistorySelect(p) ==
    /\ Free(p)
    /\ \E u \in AllUserIds, bookingId \in BookingIdInputs :
         procs' = [procs EXCEPT ![p] =
            IF HistoryCheck(u, bookingId) # 0
            THEN Answered("history", HistoryCheck(u, bookingId),
                          [id |-> bookingId, caller |-> u])
            ELSE [op |-> "history", pc |-> "payments", res |-> 0, msg |-> "",
                  loc |-> [id |-> bookingId, caller |-> u,
                           total_harga |-> bookings[bookingId].total_harga,
                           payment_status |-> bookings[bookingId].payment_status]]]
    /\ UNCHANGED <<drivers, bookings, payments, notifications, tracking, reviews>>

\* the summary of the answer: totalPaid adds the verified rows, payment_status is
\* the column of the booking row read before
summary(booking, totalPaid) ==
    [total_booking |-> booking.total_harga,
     total_paid |-> totalPaid,
     remaining |-> booking.total_harga - totalPaid,
     payment_status |-> booking.payment_status]

\* SELECT the payments of the booking, then the answer with the summary
HistoryPayments(p) ==
    /\ At(p, "history", "payments")
    /\ procs' = [procs EXCEPT ![p] =
          Answered("history", 200,
                   [id |-> procs[p].loc.id, caller |-> procs[p].loc.caller,
                    summary |-> summary(procs[p].loc, TotalPaid(procs[p].loc.id, 0))])]
    /\ UNCHANGED <<drivers, bookings, payments, notifications, tracking, reviews>>

(* ---------------------------- specifications --------------------------- *)
\* booking creation: concurrent POST /bookings on an empty bookings table
Init ==
    /\ drivers = InitDrivers
    /\ bookings = <<>>
    /\ payments = <<>>
    /\ notifications = {}
    /\ tracking = {}
    /\ reviews = <<>>
    /\ procs = [p \in Procs |-> Idle]

Next ==
    \E p \in Procs :
        \/ CreateBegin(p)
        \/ CreateSelectConflicts(p)
        \/ CreateInsert(p)
        \/ CreateNotify(p)
        \/ CreateAbort(p)

Spec == Init /\ [][Next]_vars

\* status changes: concurrent requests on one booking that createBooking has stored
InitStatus ==
    /\ drivers = InitDrivers
    /\ \E u \in UserIds, d \in DOMAIN InitDrivers :
         bookings = <<DashBooking(1, u, d, Today, Today, InitDrivers[d].harga_per_hari)>>
    /\ payments = <<>>
    /\ notifications = {}
    /\ tracking = {}
    /\ reviews = <<>>
    /\ procs = [p \in Procs |-> Idle]

NextStatus ==
    \E p \in Procs :
        \/ StatusSelect(p)
        \/ StatusUpdate(p)
        \/ StatusNotify(p)
        \/ CancelSelect(p)
        \/ CancelUpdate(p)
        \/ StartSelect(p)
        \/ StartUpdate(p)
        \/ StartNotify(p)

SpecStatus == InitStatus /\ [][NextStatus]_vars

\* status updates with statements that may fail and cancellation, one request at
\* a time
NextStatusFail ==
    \E p \in {1} :
        \/ StatusSelectStaff(p)
        \/ StatusUpdate(p)
        \/ StatusNotify(p)
        \/ StatusAbort(p)
        \/ CancelSelect(p)
        \/ CancelUpdate(p)

SpecStatusFail == InitStatus /\ [][NextStatusFail]_vars

\* reviews: concurrent transition and review requests on one booking that is ongoing
InitReview ==
    /\ drivers = InitDrivers
    /\ bookings = <<[DashBooking(1, 1, 1, Today, Today, InitDrivers[1].harga_per_hari)
                       EXCEPT !.status_booking = "ongoing"]>>
    /\ payments = <<>>
    /\ notifications = {}
    /\ tracking = {}
    /\ reviews = <<>>
    /\ procs = [p \in Procs |-> Idle]

NextReview ==
    \E p \in Procs :
        \/ StatusSelectStaff(p)
        \/ StatusUpdate(p)
        \/ StatusNotify(p)
        \/ ReviewSelect(p)
        \/ ReviewExisting(p)
        \/ ReviewInsert(p)
        \/ ReviewAverage(p)
        \/ ReviewUpdate(p)
        \/ ReviewAbort(p)

SpecReview == InitReview /\ [][NextReview]_vars

\* addReview on two completed bookings of driver 1, one of each customer, two
\* requests at a time
InitRating ==
    /\ drivers = InitDrivers
    /\ bookings = <<[DashBooking(1, 1, 1, Today, Today, InitDrivers[1].harga_per_hari)
                       EXCEPT !.status_booking = "completed"],
                    [DashBooking(2, 2, 1, Today + 1, Today + 1, InitDrivers[1].harga_per_hari)
                       EXCEPT !.status_booking = "completed"]>>
    /\ payments = <<>>
    /\ notifications = {}
    /\ tracking = {}
    /\ reviews = <<>>
    /\ procs = [p \in Procs |-> Idle]

NextRating ==
    \E p \in Procs :
        \/ ReviewSelect(p)
        \/ ReviewExisting(p)
        \/ ReviewInsert(p)
        \/ ReviewAverage(p)
        \/ ReviewUpdate(p)
        \/ ReviewAbort(p)

SpecRating == InitRating /\ [][NextRating]_vars

\* booking creation, one request at a time, on a table that holds one booking of
\* any driver, range and status
InitConflict ==
    /\ drivers = InitDrivers
    /\ \E d \in DOMAIN InitDrivers, s \in Days, e \in Days, st \in Statuses :
         /\ s <= e
         /\ bookings = <<[DashBooking(1, 1, d, s, e, InitDrivers[d].harga_per_hari)
                            EXCEPT !.status_booking = st]>>
    /\ payments = <<>>
    /\ notifications = {<<InitDrivers[bookings[1].driver_id].user_id, "Booking Baru">>}
    /\ tracking = {}
    /\ reviews = <<>>
    /\ procs = [p \in Procs |-> Idle]

NextConflict ==
    \E p \in {1} :
        \/ CreateBegin(p)
        \/ CreateSelectConflicts(p)
        \/ CreateInsert(p)
        \/ CreateNotify(p)
        \/ CreateAbort(p)

SpecConflict == InitConflict /\ [][NextConflict]_vars

\* booking creation with the dates in either form while the drivers change their
\* prices, one request at a time
NextPrice ==
    \E p \in {1} :
        \/ CreateBeginAnyForm(p)
        \/ CreateSelectConflicts(p)
        \/ CreateInsert(p)
        \/ CreateNotify(p)
        \/ CreateAbort(p)
        \/ ProfileSelectPrice(p)
        \/ ProfileUpdate(p)

SpecPrice == Init /\ [][NextPrice]_vars

\* booking creation, one request at a time, while the drivers switch their
\* availability; the second driver is verified or still waits for the admin
InitAvailable ==
    /\ \E v \in {"verified", "pending"} :
         drivers = [InitDrivers EXCEPT ![2].status_verifikasi = v]
    /\ bookings = <<>>
    /\ payments = <<>>
    /\ notifications = {}
    /\ tracking = {}
    /\ reviews = <<>>
    /\ procs = [p \in Procs |-> Idle]

NextAvailable ==
    \E p \in {1} :
        \/ CreateBegin(p)
        \/ CreateSelectConflicts(p)
        \/ CreateInsert(p)
        \/ CreateNotify(p)
        \/ CreateAbort(p)
        \/ ProfileSelectAvailable(p)
        \/ ProfileUpdate(p)

SpecAvailable == InitAvailable /\ [][NextAvailable]_vars

\* booking creation with the dates in either form, one request at a time
NextDates ==
    \E p \in {1} :
        \/ CreateBeginAnyForm(p)
        \/ CreateSelectConflicts(p)
        \/ CreateInsert(p)
        \/ CreateNotify(p)
        \/ CreateAbort(p)

SpecDates == Init /\ [][NextDates]_vars

\* payments: concurrent requests on one booking of two days at price 1
InitPay ==
    /\ drivers = InitDrivers
    /\ bookings = <<PayBooking>>
    /\ payments = <<>>
    /\ notifications = {}
    /\ tracking = {}
    /\ reviews = <<>>
    /\ procs = [p \in Procs |-> Idle]

NextPay ==
    \E p \in Procs :
        \/ SubmitSelect(p)
        \/ SubmitInsert(p)
        \/ SubmitUpdateStatus(p)
        \/ VerifySelect(p)
        \/ VerifyUpdate(p)
        \/ VerifyCommit(p)
        \/ VerifyAbort(p)

SpecPay == InitPay /\ [][NextPay]_vars

\* every request on a stored booking and its payments while the drivers change
\* their prices, one request at a time
NextFrame ==
    \E p \in {1} :
        \/ ProfileSelectPrice(p)
        \/ ProfileUpdate(p)
        \/ StatusSelectStaff(p)
        \/ StatusUpdate(p)
        \/ StatusNotify(p)
        \/ CancelSelect(p)
        \/ CancelUpdate(p)
        \/ SubmitSelectWhole(p)
        \/ SubmitInsert(p)
        \/ SubmitUpdateStatus(p)
        \/ VerifySelect(p)
        \/ VerifyUpdate(p)
        \/ VerifyCommit(p)
        \/ VerifyAbort(p)

SpecFrame == InitPay /\ [][NextFrame]_vars

\* payments, one request at a time, with every method and with or without a proof
NextPaySeq ==
    \E p \in {1} :
        \/ SubmitSelectAny(p)
        \/ SubmitInsert(p)
        \/ SubmitUpdateStatus(p)
        \/ VerifySelect(p)
        \/ VerifyUpdate(p)
        \/ VerifyCommit(p)
        \/ VerifyAbort(p)

SpecPaySeq == InitPay /\ [][NextPaySeq]_vars

\* payment submission with statements that may fail, one request at a time
NextSubmitFail ==
    \E p \in {1} :
        \/ SubmitSelect(p)
        \/ SubmitInsert(p)
        \/ SubmitUpdateStatus(p)
        \/ SubmitAbort(p)

SpecSubmitFail == InitPay /\ [][NextSubmitFail]_vars

\* the two reads of a booking next to payments of its whole price and their
\* verification, one request at a time
NextRead ==
    \E p \in {1} :
        \/ SubmitSelectWhole(p)
        \/ SubmitInsert(p)
        \/ SubmitUpdateStatus(p)
        \/ VerifySelect(p)
        \/ VerifyUpdate(p)
        \/ VerifyCommit(p)
        \/ VerifyAbort(p)
        \/ DetailSelect(p)
        \/ DetailPayments(p)
        \/ HistorySelect(p)
        \/ HistoryPayments(p)

SpecRead == InitPay /\ [][NextRead]_vars

\* payments on a booking of price 10, one request at a time
InitSubmit ==
    /\ drivers = InitDrivers
    /\ bookings = <<SubmitBooking>>
    /\ payments = <<>>
    /\ notifications = {}
    /\ tracking = {}
    /\ reviews = <<>>
    /\ procs = [p \in Procs |-> Idle]

NextSubmit ==
    \E p \in {1} :
        \/ SubmitSelectBoundary(p)
        \/ SubmitInsert(p)
        \/ SubmitUpdateStatus(p)
        \/ VerifySelect(p)
        \/ VerifyUpdate(p)
        \/ VerifyCommit(p)
        \/ VerifyAbort(p)

SpecSubmit == InitSubmit /\ [][NextSubmit]_vars

(* ---------------------------- claims ----------------------------------- *)
ActiveStatuses == {"pending", "confirmed", "ongoing"}
TerminalStatuses == {"completed", "cancelled"}

\* two closed date ranges overlap
Overlap(s1, e1, s2, e2) == s1 <= e2 /\ s2 <= e1

\* the table of legal status changes
LegalEdges ==
    {<<"pending", "confirmed">>, <<"pending", "cancelled">>,
     <<"confirmed", "ongoing">>, <<"confirmed", "cancelled">>,
     <<"ongoing", "completed">>, <<"ongoing", "cancelled">>}

\* C1: no two bookings of the same driver that are both pending, confirmed or
\* ongoing have overlapping closed date ranges, in every interleaving of
\* concurrent createBooking requests.
NoDoubleBooking ==
    \A i, j \in 1..Len(bookings) :
        (/\ i < j
         /\ bookings[i].driver_id = bookings[j].driver_id
         /\ bookings[i].status_booking \in ActiveStatuses
         /\ bookings[j].status_booking \in ActiveStatuses)
        => ~Overlap(bookings[i].tanggal_mulai, bookings[i].tanggal_selesai,
                    bookings[j].tanggal_mulai, bookings[j].tanggal_selesai)

\* C2: in every interleaving of concurrent status-changing requests, every change
\* of a stored booking status goes from a status to one of its legal successors.
StatusChangesAreLegal ==
    [][\A i \in 1..Len(bookings) :
          bookings'[i].status_booking # bookings[i].status_booking
          => <<bookings[i].status_booking, bookings'[i].status_booking>> \in LegalEdges]_vars

\* the actors the transition operation serves for booking id
MayTransition(u, id) ==
    RoleOf(u) = "admin" \/ drivers[bookings[id].driver_id].user_id = u

\* C3: for every pair (current, requested) that is no edge of the table the
\* transition request is refused with 400 and writes nothing; for every pair that
\* is an edge an authorized request passes the check and its UPDATE sets the
\* booking's status to the requested one.
TransitionLegality ==
    [][/\ \A id \in 1..Len(bookings), status \in StatusInputs, u \in DriverUserIds \cup AdminIds :
            MayTransition(u, id)
            => /\ <<bookings[id].status_booking, status>> \in LegalEdges
                    => StatusCheck(u, id, status) = 0
               /\ <<bookings[id].status_booking, status>> \notin LegalEdges
                    => StatusCheck(u, id, status) = 400
       /\ \A p \in Procs :
            /\ At(p, "status", "update")
                 => <<procs[p].loc.status_booking, procs[p].loc.status>> \in LegalEdges
            /\ (At(p, "status", "update") /\ procs'[p] # procs[p])
                 => bookings'[procs[p].loc.id].status_booking = procs[p].loc.status
            /\ (Free(p) /\ procs'[p] # procs[p] /\ procs'[p] = Done("status", 400))
                 => bookings' = bookings]_vars

\* C3 witness: one transition request was refused with 400 and the UPDATE of
\* another one has set the status it asked for.
TransitionLegalityWitness ==
    \E p, q \in Procs :
        /\ procs[p] = Done("status", 400)
        /\ At(q, "status", "notify")
        /\ bookings[1].status_booking = "confirmed"

\* C4: once a booking's status is completed or cancelled, no step of any request
\* changes it again.
TerminalIsAbsorbing ==
    [][\A i \in 1..Len(bookings) :
          bookings[i].status_booking \in TerminalStatuses
          => bookings'[i].status_booking = bookings[i].status_booking]_vars

\* C5: once a payment is verified or rejected, its record (status, verifier) is
\* never written again, also when two verifyPayment requests on it run concurrently.
DecidedAtMostOnce ==
    [][\A i \in 1..Len(payments) :
          payments[i].status_payment # "pending" => payments'[i] = payments[i]]_vars

\* C6: a verifyPayment call on a payment that is already verified or rejected
\* (a cash payment included) is refused with 400, and the payment records and the
\* booking's payment status are the same before and after the refused call.
VerifyIdempotence ==
    [][/\ \A i \in 1..Len(payments) :
            payments[i].status_payment # "pending" => VerifyCheck(i) = 400
       /\ \A p \in Procs :
            (Free(p) /\ procs'[p] # procs[p] /\ procs'[p] = Done("verify", 400))
            => payments' = payments /\ bookings' = bookings]_vars

\* C6 witness: the only payment is a cash payment, verified at its submission, and
\* a verifyPayment request has been refused with 400.
VerifyIdempotenceWitness ==
    /\ Len(payments) = 1
    /\ payments[1].payment_method = "cash"
    /\ payments[1].status_payment = "verified"
    /\ procs[1] = Done("verify", 400)

\* C7: the sum of a booking's verified payment amounts never exceeds its total price.
NoOverpayment ==
    \A b \in 1..Len(bookings) : TotalPaid(b, 0) <= bookings[b].total_harga

\* C8: if the sum of a booking's verified payment amounts is at least its total
\* price, the booking's stored payment status is paid.
PaidWhenCovered ==
    \A b \in 1..Len(bookings) :
        TotalPaid(b, 0) >= bookings[b].total_harga
        => bookings[b].payment_status = "paid"

\* C9: a booking's payment status is unpaid if and only if the booking has no
\* verified payment.
UnpaidIffNoVerified ==
    \A b \in 1..Len(bookings) :
        bookings[b].payment_status = "unpaid"
        <=> ~\E i \in 1..Len(payments) :
                payments[i].booking_id = b /\ payments[i].status_payment = "verified"

\* C10: after verifyPayment with decision verified on a pending payment, the
\* booking's payment status is paid if the sum of all its verified payments,
\* this one included, is at least the total price, and otherwise dp_paid when the
\* payment is a deposit.
VerifiedDerivesStatus ==
    [][\A p \in Procs :
          (/\ At(p, "verify", "tx_commit")
           /\ procs[p].loc.status = "verified"
           /\ procs'[p].pc = "idle")
          => LET b == PaymentRow(p).booking_id
                 sum == VerifiedSum(payments', b, 0)
             IN IF sum >= bookings[b].total_harga
                THEN bookings'[b].payment_status = "paid"
                ELSE PaymentRow(p).payment_type = "dp"
                     => bookings'[b].payment_status = "dp_paid"]_vars

\* C11: for a booking with total price T, once a deposit d with 0.3*T <= d < T is
\* verified the payment status is dp_paid, and once a payment of T - d submitted
\* after it is verified the payment status is paid.  (The deposit is taken in
\* cash, verified at its submission, so the second payment is the later one.)
SettlementCorrect ==
    (/\ procs[1].pc = "idle"
     /\ Len(payments) >= 1
     /\ payments[1].payment_type = "dp"
     /\ payments[1].payment_method = "cash"
     /\ payments[1].jumlah < bookings[1].total_harga)
    => /\ Len(payments) = 1 => bookings[1].payment_status = "dp_paid"
       /\ (/\ Len(payments) = 2
           /\ payments[2].status_payment = "verified"
           /\ payments[2].jumlah = bookings[1].total_harga - payments[1].jumlah)
          => bookings[1].payment_status = "paid"

\* C12: after a successful submitPayment with method cash, the booking's stored
\* payment status is dp_paid when the kind is deposit and paid when the kind is
\* full or settlement.
CashSubmitSetsStatus ==
    (/\ procs[1] = Done("submit", 201)
     /\ Len(payments) >= 1
     /\ payments[Len(payments)].payment_method = "cash")
    => bookings[payments[Len(payments)].booking_id].payment_status =
          IF payments[Len(payments)].payment_type = "dp" THEN "dp_paid" ELSE "paid"

\* C13: a submitted payment is stored verified exactly when its method is cash and
\* pending otherwise, and a pending payment becomes verified only in the commit of
\* an admin's verifyPayment request with decision verified.
VerifiedOnlyByCashOrAdmin ==
    [][/\ Len(payments') > Len(payments)
            => LET new == payments'[Len(payments')]
               IN /\ new.status_payment = "verified" <=> new.payment_method = "cash"
                  /\ new.status_payment = "pending" <=> new.payment_method # "cash"
       /\ \A i \in 1..Len(payments) :
            (payments[i].status_payment = "pending"
             /\ payments'[i].status_payment = "verified")
            => /\ \E p \in Procs :
                    /\ At(p, "verify", "tx_commit")
                    /\ procs[p].loc.id = i
                    /\ procs[p].loc.status = "verified"
                    /\ RoleOf(procs[p].loc.adminId) = "admin"
                    /\ procs'[p] = Done("verify", 200)
               /\ payments[i].payment_method # "cash"]_vars

\* C13 witness: an e-wallet payment, stored pending, has been verified by the admin
\* and a cash payment is stored verified with no verifier.
VerifiedOnlyByCashOrAdminWitness ==
    \E i, j \in 1..Len(payments) :
        /\ payments[i].payment_method = "e-wallet"
        /\ payments[i].status_payment = "verified"
        /\ payments[i].verified_by \in AdminIds
        /\ payments[j].payment_method = "cash"
        /\ payments[j].status_payment = "verified"
        /\ payments[j].verified_by = 0

\* C14: every stored transfer or e-wallet payment carries a proof reference (a
\* submitPayment by a method other than cash with no proof is rejected and
\* inserts nothing).
NonCashCarriesProof ==
    \A i \in 1..Len(payments) :
        payments[i].payment_method # "cash" => payments[i].bukti_transfer

\* a submitPayment request has just been refused with this message
SubmitRefusedStep(p, msg) ==
    /\ Free(p)
    /\ procs'[p] # procs[p]
    /\ procs'[p] = Refused("submit", 400, msg)

\* C15: a deposit below 30% of the booking's total price is refused with 400 and
\* the refusal inserts no payment and changes no booking; a deposit of exactly 30%
\* passes the check and is inserted.
DepositMinimum ==
    [][/\ \A j \in SubmitAmounts, m \in PaymentMethods, bukti \in BOOLEAN :
            LET T == bookings[1].total_harga
                u == bookings[1].user_id
            IN /\ 10 * j < 3 * T => SubmitCheck(u, 1, j, "dp", m, bukti) = 400
               /\ (10 * j = 3 * T /\ (m = "cash" \/ bukti))
                    => SubmitCheck(u, 1, j, "dp", m, bukti) = 0
       /\ \A p \in Procs :
            /\ SubmitRefusedStep(p, "DP minimal")
                 => payments' = payments /\ bookings' = bookings
            /\ (At(p, "submit", "insert") /\ procs'[p] # procs[p])
                 => /\ Len(payments') = Len(payments) + 1
                    /\ payments'[Len(payments')].jumlah = procs[p].loc.jumlah
                    /\ payments'[Len(payments')].payment_type = procs[p].loc.payment_type]_vars

\* C15 witness: a deposit of exactly 30% of the price is stored and a smaller
\* deposit has been refused.
DepositMinimumWitness ==
    /\ procs[1] = Refused("submit", 400, "DP minimal")
    /\ \E i \in 1..Len(payments) :
         /\ payments[i].payment_type = "dp"
         /\ 10 * payments[i].jumlah = 3 * bookings[1].total_harga

\* what is left to pay: the total price minus the verified payments
Outstanding(b) ==
    bookings[b].total_harga
    - SumJumlah(payments, {i \in 1..Len(payments) :
                             /\ payments[i].booking_id = b
                             /\ payments[i].status_payment = "verified"})

\* C16: a full or settlement payment below the outstanding balance (pending and
\* rejected payments not counted) is refused with 400 and inserts no payment; an
\* amount equal to the outstanding balance passes the check.
OutstandingMinimum ==
    [][/\ \A j \in SubmitAmounts, t \in {"full", "pelunasan"}, m \in {"cash", "transfer"} :
            LET u == bookings[1].user_id
            IN /\ j < Outstanding(1) => SubmitCheck(u, 1, j, t, m, TRUE) = 400
               /\ j = Outstanding(1) => SubmitCheck(u, 1, j, t, m, TRUE) = 0
       /\ \A p \in Procs :
            SubmitRefusedStep(p, "Sisa pembayaran")
            => payments' = payments /\ bookings' = bookings]_vars

\* C16 witness: the only payment of the booking was rejected by the admin and a
\* full or settlement payment has been refused as too small.
OutstandingMinimumWitness ==
    /\ Len(payments) = 1
    /\ payments[1].status_payment = "rejected"
    /\ procs[1] = Refused("submit", 400, "Sisa pembayaran")

\* C19: createBooking is all-or-nothing: a request that fails after the
\* availability check leaves no booking row and no notification row; a request
\* that succeeds adds exactly one booking, in status pending, and the notification
\* of its driver, in one step; no state holds a booking without its notification
\* or a notification without a booking.
CreateAllOrNothing ==
    [][/\ \A i \in 1..Len(bookings) :
            <<drivers[bookings[i].driver_id].user_id, "Booking Baru">> \in notifications
       /\ \A n \in notifications :
            \E i \in 1..Len(bookings) : drivers[bookings[i].driver_id].user_id = n[1]
       /\ \A p \in Procs :
            /\ (procs[p].op = "create" /\ ~Free(p) /\ procs'[p].pc = "idle"
                /\ procs'[p].res = 500)
                 => bookings' = bookings /\ notifications' = notifications
            /\ (procs[p].op = "create" /\ ~Free(p) /\ procs'[p] = Done("create", 201))
                 => /\ Len(bookings') = Len(bookings) + 1
                    /\ SubSeq(bookings', 1, Len(bookings)) = bookings
                    /\ LET b == bookings'[Len(bookings')]
                       IN /\ b.status_booking = "pending"
                          /\ b.user_id = procs[p].loc.user_id
                          /\ b.driver_id = procs[p].loc.driver_id
                          /\ <<drivers[b.driver_id].user_id, "Booking Baru">> \in notifications'
       /\ bookings' # bookings
            => \E p \in Procs : At(p, "create", "tx_notify") /\ procs'[p] = Done("create", 201)]_vars

\* C19 witness: one request has failed inside the transaction, another has
\* succeeded, and the one booking stored has its notification.
CreateAllOrNothingWitness ==
    \E p, q \in Procs :
        /\ procs[p] = Refused("create", 500, "store error")
        /\ procs[q] = Done("create", 201)
        /\ Len(bookings) = 1
        /\ notifications = {<<drivers[bookings[1].driver_id].user_id, "Booking Baru">>}

\* C17: verifyPayment with decision rejected on a pending payment sets that
\* payment to rejected and leaves the booking's payment status, the booking's
\* status and every other payment unchanged.
RejectLeavesBooking ==
    [][\A p \in Procs :
          (/\ procs[p].op = "verify" /\ ~Free(p)
           /\ procs[p].loc.status = "rejected"
           /\ procs'[p] # procs[p])
          => /\ bookings' = bookings
             /\ Len(payments') = Len(payments)
             /\ \A i \in 1..Len(payments) :
                   i # procs[p].loc.id => payments'[i] = payments[i]
             /\ procs'[p] = Done("verify", 200)
                   => payments'[procs[p].loc.id].status_payment = "rejected"]_vars

\* C17 witness: the admin has rejected a payment of a booking whose payment status
\* a cash deposit had set to dp_paid.
RejectLeavesBookingWitness ==
    /\ procs[1] = Done("verify", 200)
    /\ \E i \in 1..Len(payments) : payments[i].status_payment = "rejected"
    /\ bookings[1].payment_status = "dp_paid"

\* a payment the admin has verified
AdminVerified(i) ==
    payments[i].status_payment = "verified" /\ payments[i].verified_by \in AdminIds

\* C18: verifyPayment with decision verified is atomic: no state holds a payment
\* verified by the admin whose booking's payment status has not been recomputed,
\* the two writes appear in one step, and a failure inside the operation leaves
\* the payment pending and the booking unchanged.
VerifyAtomic ==
    [][/\ \A i \in 1..Len(payments) :
            AdminVerified(i)
            => bookings[payments[i].booking_id].payment_status \in {"dp_paid", "paid"}
       /\ \A p \in Procs :
            /\ (/\ At(p, "verify", "tx_commit")
                /\ procs[p].loc.status = "verified"
                /\ procs'[p] = Done("verify", 200))
                 => /\ payments[procs[p].loc.id].status_payment = "pending"
                    /\ payments'[procs[p].loc.id].status_payment = "verified"
                    /\ bookings'[PaymentRow(p).booking_id].payment_status
                          \in {"dp_paid", "paid"}
            /\ (procs[p].op = "verify" /\ ~Free(p) /\ procs'[p] = Done("verify", 500))
                 => /\ payments' = payments
                    /\ bookings' = bookings
                    /\ payments[procs[p].loc.id].status_payment = "pending"]_vars

\* C18 witness: the admin has verified one payment, the booking's payment status
\* is recomputed, and a later verifyPayment request has failed on a payment that
\* is still pending.
VerifyAtomicWitness ==
    /\ procs[1] = Done("verify", 500)
    /\ \E i, j \in 1..Len(payments) :
         /\ AdminVerified(i)
         /\ payments[j].status_payment = "pending"

\* an existing booking that blocks driver d on the range [s, e]
Blocks(b, d, s, e) ==
    /\ b.driver_id = d
    /\ b.status_booking \in ActiveStatuses
    /\ Overlap(b.tanggal_mulai, b.tanggal_selesai, s, e)

\* C20: for an available driver and a valid range, createBooking fails with a
\* schedule conflict if and only if some booking of that driver in status pending,
\* confirmed or ongoing overlaps the range as a closed interval; the four-BETWEEN
\* query equals the closed-interval overlap test.
ConflictIffOverlap ==
    [][/\ \A d \in DOMAIN drivers, s \in Days, e \in Days :
            (s <= e)
            => (conflictingBookings(d, s, e) # {}
                <=> \E i \in 1..Len(bookings) : Blocks(bookings[i], d, s, e))
       /\ \A p \in Procs :
            (At(p, "create", "tx_conflict") /\ procs'[p] # procs[p])
            => LET a == procs[p].loc
                   blocked == \E i \in 1..Len(bookings) :
                                 Blocks(bookings[i], a.driver_id, a.tanggal_mulai,
                                        a.tanggal_selesai)
               IN /\ blocked => procs'[p].pc = "idle" /\ procs'[p].res = 500
                  /\ procs'[p] = Refused("create", 500, "Driver sudah dibooking")
                       => blocked
                  /\ ~blocked => procs'[p].msg # "Driver sudah dibooking"]_vars

\* C20 witness: a request has been refused for a schedule conflict with the
\* stored booking, which is pending, confirmed or ongoing.
ConflictIffOverlapWitness ==
    /\ procs[1] = Refused("create", 500, "Driver sudah dibooking")
    /\ Len(bookings) = 1
    /\ bookings[1].status_booking \in ActiveStatuses

\* C21: every stored booking has total_hari = (tanggal_selesai - tanggal_mulai in
\* whole days) + 1, which is 1 for a booking that starts and ends on the same
\* day, and total_harga = total_hari * harga_per_hari.
PricingDeterminism ==
    \A i \in 1..Len(bookings) :
        /\ bookings[i].total_hari =
              (bookings[i].tanggal_selesai - bookings[i].tanggal_mulai) + 1
        /\ bookings[i].total_harga = bookings[i].total_hari * bookings[i].harga_per_hari

\* C22: the per-day rate, the day count and the total price of a stored booking
\* never change: no step of a request on bookings or payments rewrites them, and
\* a change of the driver's price leaves them as they were.
PriceImmutable ==
    [][\A i \in 1..Len(bookings) :
          /\ bookings'[i].harga_per_hari = bookings[i].harga_per_hari
          /\ bookings'[i].total_hari = bookings[i].total_hari
          /\ bookings'[i].total_harga = bookings[i].total_harga]_vars

\* C22 witness: the driver of the booking asks another price than the one the
\* booking holds, and the booking has since been confirmed and paid.
PriceImmutableWitness ==
    /\ drivers[bookings[1].driver_id].harga_per_hari # bookings[1].harga_per_hari
    /\ bookings[1].status_booking = "confirmed"
    /\ bookings[1].payment_status = "paid"
    /\ bookings[1].total_harga = PayBooking.total_harga

\* C23: createBooking with a start date before today or an end date before the
\* start date is refused with 400 in its first step, before any statement is sent
\* to the store, and adds no booking and no notification; every request that goes
\* on and every stored booking has end date >= start date.
DateValidation ==
    [][/\ \A s \in Days, e \in Days, fs \in DateForms, fe \in DateForms :
            (s < Today \/ e < s) => DateCheck(NewDate(s, fs), NewDate(e, fe)) # ""
       /\ \A p \in Procs :
            /\ (procs'[p] # procs[p] /\ procs'[p].op = "create" /\ procs'[p].res = 400)
                 => /\ Free(p)
                    /\ bookings' = bookings
                    /\ notifications' = notifications
            /\ (procs[p].op = "create" /\ ~Free(p))
                 => /\ procs[p].loc.tanggal_mulai >= Today
                    /\ procs[p].loc.tanggal_selesai >= procs[p].loc.tanggal_mulai
       /\ \A i \in 1..Len(bookings) :
            bookings[i].tanggal_selesai >= bookings[i].tanggal_mulai]_vars

\* C23 witness: after a booking was stored, a request whose end date is before its
\* start date has been refused.
DateValidationWitness ==
    /\ procs[1] = Refused("create", 400, "Tanggal selesai harus setelah tanggal mulai")
    /\ Len(bookings) = 1
    /\ Cardinality(notifications) = 1

\* the driver row exists, is verified and is marked available
VerifiedAndAvailable(d) ==
    IF d \in DOMAIN drivers
    THEN drivers[d].status_verifikasi = "verified" /\ drivers[d].is_available
    ELSE FALSE

\* C24: createBooking fails with 'Driver tidak tersedia' and stores nothing when
\* the driver does not exist, is not verified or is not available at the lookup;
\* a request goes past the lookup only for a driver that is then verified and
\* available, and every booking is stored by such a request.
DriverAvailability ==
    [][/\ \A d \in DriverIdInputs : AvailableDriver(d) <=> VerifiedAndAvailable(d)
       /\ \A p \in Procs :
            /\ (procs'[p] # procs[p]
                /\ procs'[p] = Refused("create", 500, "Driver tidak tersedia"))
                 => /\ Free(p)
                    /\ bookings' = bookings
                    /\ notifications' = notifications
            /\ (Free(p) /\ procs'[p].op = "create" /\ procs'[p].pc = "tx_conflict")
                 => VerifiedAndAvailable(procs'[p].loc.driver_id)
       /\ Len(bookings') > Len(bookings)
            => \E p \in Procs :
                  /\ At(p, "create", "tx_notify")
                  /\ bookings'[Len(bookings')].driver_id = procs[p].loc.driver_id]_vars

\* C24 witness: a booking is stored for a driver who has since switched to not
\* available, and a later request has been refused for an unavailable driver.
DriverAvailabilityWitness ==
    /\ procs[1] = Refused("create", 500, "Driver tidak tersedia")
    /\ Len(bookings) = 1
    /\ ~drivers[bookings[1].driver_id].is_available

\* C25: a createBooking request refused because the driver is unavailable or
\* because of a schedule conflict is answered with a client-error status (400, 404
\* or 409), not with the status 500 that a failure of the store is answered with.
RefusalIsClientError ==
    \A p \in Procs :
        procs[p].msg \in {"Driver tidak tersedia", "Driver sudah dibooking"}
        => /\ procs[p].res \in {400, 404, 409}
           /\ procs[p].res # Refused("create", 500, "store error").res

\* C26: a transition request by a driver who is not the booking's driver is
\* refused with 403 and leaves the booking unchanged; a request by an account of
\* role user is refused by the route's guard; a booking's status changes only in
\* the UPDATE of a transition request or of a tracking start that has passed
\* these checks, or in a cancel.
TransitionAuthorization ==
    [][/\ \A id \in 1..Len(bookings), status \in StatusInputs, u \in DriverUserIds :
            ~MayTransition(u, id) => StatusCheck(u, id, status) = 403
       /\ \A id \in 1..Len(bookings), u \in DriverUserIds :
            (~MayTransition(u, id) /\ StartCheck(u, id) # 404) => StartCheck(u, id) = 403
       /\ \A u \in UserIds : ~isDriverOrAdmin(u)
       /\ \A p \in Procs :
            (procs'[p] # procs[p] /\ procs'[p].op = "status" /\ procs'[p].res = 403)
            => Free(p) /\ bookings' = bookings
       /\ \A i \in 1..Len(bookings) :
            bookings'[i].status_booking # bookings[i].status_booking
            => \E p \in Procs :
                  /\ procs[p].op \in {"status", "start", "cancel"}
                  /\ procs[p].pc = "update"
                  /\ procs[p].loc.id = i
                  /\ procs'[p] # procs[p]]_vars

\* C26 witness: the driver who does not own the booking has been refused with 403
\* by the handler and a customer has been refused by the route's guard, while the
\* booking is still pending.
TransitionAuthorizationWitness ==
    \E p, q \in Procs :
        /\ procs[p] = Done("status", 403)
        /\ procs[q] = Refused("status", 403, "isDriverOrAdmin")
        /\ bookings[1].status_booking = "pending"

\* C27: when the customer who owns a booking in status pending or confirmed
\* calls cancel with a reason, the call succeeds, the booking's status becomes
\* cancelled and the reason is appended to the booking's note.
CancelSucceeds ==
    [][\A p \in Procs :
          (At(p, "cancel", "update") /\ procs'[p] # procs[p])
          => /\ procs'[p].res = 200
             /\ bookings'[procs[p].loc.id].status_booking = "cancelled"
             /\ bookings'[procs[p].loc.id].catatan_khusus
                   # bookings[procs[p].loc.id].catatan_khusus]_vars

\* C28: cancel on a booking in status ongoing, completed or cancelled is refused
\* with 400, cancel on a booking of another customer is refused with 404, and a
\* refused cancel leaves the bookings (status and note) unchanged and adds no
\* notification.
CancelBoundary ==
    [][/\ \A id \in 1..Len(bookings), u \in UserIds :
            /\ bookings[id].user_id # u => CancelCheck(u, id) = 404
            /\ (/\ bookings[id].user_id = u
                /\ bookings[id].status_booking \in {"ongoing", "completed", "cancelled"})
                 => CancelCheck(u, id) = 400
       /\ \A p \in Procs :
            (procs'[p] # procs[p] /\ procs'[p].op = "cancel" /\ procs'[p].res \in {400, 404})
            => /\ Free(p)
               /\ bookings' = bookings
               /\ notifications' = notifications]_vars

\* C28 witness: the owner's cancel of a booking that is ongoing has been refused
\* with 400 and another customer's cancel of it with 404.
CancelBoundaryWitness ==
    \E p, q \in Procs :
        /\ procs[p] = Done("cancel", 400)
        /\ procs[q] = Done("cancel", 404)
        /\ bookings[1].status_booking = "ongoing"

\* C29: when a transition request moves a booking to cancelled and gives a
\* reason, the reason is appended to the booking's note; a transition to another
\* status, or without a reason, leaves the note unchanged.
ReasonAppended ==
    [][\A p \in Procs :
          (At(p, "status", "update") /\ procs'[p] # procs[p])
          => LET a == procs[p].loc
             IN IF a.status = "cancelled" /\ a.reason # ""
                THEN bookings'[a.id].catatan_khusus # bookings[a.id].catatan_khusus
                ELSE bookings'[a.id].catatan_khusus = bookings[a.id].catatan_khusus]_vars

\* C30: addReview is refused with 404, inserts no review and leaves the driver's
\* rating and review count unchanged unless the booking exists, belongs to the
\* caller and is completed; every stored review refers to a completed booking of
\* its author.
ReviewEligibility ==
    [][/\ \A u \in UserIds, id \in BookingIdInputs :
            (\/ id > Len(bookings)
             \/ bookings[id].user_id # u
             \/ bookings[id].status_booking # "completed")
            => ReviewCheck(u, id) = 404
       /\ \A p \in Procs :
            (procs'[p] # procs[p] /\ procs'[p] = Done("review", 404))
            => Free(p) /\ reviews' = reviews /\ drivers' = drivers
       /\ \A i \in 1..Len(reviews) :
            /\ bookings[reviews[i].booking_id].user_id = reviews[i].user_id
            /\ bookings[reviews[i].booking_id].status_booking = "completed"]_vars

\* C31: a booking never has more than one stored review, also when two addReview
\* requests for it run at the same time; a request for a booking that already has
\* a review is answered 400 and leaves the reviews and the driver's rating as
\* they were.
ReviewExclusivity ==
    [][/\ \A i \in 1..Len(reviews'), j \in 1..Len(reviews') :
            reviews'[i].booking_id = reviews'[j].booking_id => i = j
       /\ \A p \in Procs :
            (At(p, "review", "existing") /\ procs'[p] # procs[p]
             /\ existingReviews(procs[p].loc.id) # {})
            => /\ procs'[p] = Done("review", 400)
               /\ reviews' = reviews
               /\ drivers' = drivers]_vars

\* C32: in every committed state a driver who has stored reviews carries their
\* mean as rating and their number as review count, also after two addReview
\* requests for different bookings of the driver ran at the same time.
RatingConsistency ==
    \A d \in DOMAIN drivers :
        LET avg == AvgRating(reviews, d)
        IN avg[2] > 0 =>
              /\ drivers[d].total_review = avg[2]
              /\ drivers[d].rating[1] * avg[2] = avg[1] * drivers[d].rating[2]

\* the accounts a booking's data may go to: its requester, the account of its
\* driver, the admins
MayRead(id) ==
    {bookings[id].user_id, drivers[bookings[id].driver_id].user_id} \cup AdminIds

\* C33: the booking detail and the payment history of a booking are answered with
\* data only to the booking's requester, to the account of its driver and to an
\* admin; any other account is refused with 403 by both.
ReadAccess ==
    [][/\ \A u \in AllUserIds, id \in 1..Len(bookings) :
            u \notin MayRead(id) => DetailCheck(u, id) = 403 /\ HistoryCheck(u, id) = 403
       /\ \A p \in Procs :
            (procs'[p] # procs[p] /\ procs'[p].op \in {"detail", "history"})
            => /\ procs'[p].res = 200 =>
                    /\ procs[p].loc.id \in 1..Len(bookings)
                    /\ procs[p].loc.caller \in MayRead(procs[p].loc.id)
               /\ (Free(p) /\ procs'[p].loc.id \in 1..Len(bookings)
                   /\ procs'[p].loc.caller \notin MayRead(procs'[p].loc.id))
                  => procs'[p].res = 403 /\ procs'[p].pc = "idle"]_vars

\* the account of the other driver has asked for the detail of the booking, which
\* has a payment, and was refused
ReadAccessWitness ==
    /\ Len(payments) > 0
    /\ procs[1].op = "detail" /\ procs[1].res = 403
    /\ procs[1].loc.caller \in DriverUserIds

\* C34: the summary of the payment history carries as total_paid the sum of the
\* booking's verified payments, as remaining the price less that sum, and a
\* payment status that is paid exactly when remaining is at most 0.
HistorySummary ==
    [][\A p \in Procs :
          (At(p, "history", "payments") /\ procs'[p] # procs[p])
          => LET s == procs'[p].loc.summary
             IN /\ procs'[p].res = 200
                /\ s.total_paid = VerifiedSum(payments, procs[p].loc.id, 0)
                /\ s.remaining = bookings[procs[p].loc.id].total_harga - s.total_paid
                /\ s.payment_status = "paid" <=> s.remaining <= 0]_vars

\* C35: the insert of a cash deposit or settlement and the update of the booking's
\* payment status take effect together: no state, after a failure or during the
\* request, holds such a verified payment while the booking is still unpaid.
CashSubmitAtomic ==
    \A i \in 1..Len(payments) :
        (/\ payments[i].payment_method = "cash"
         /\ payments[i].payment_type \in {"dp", "pelunasan"}
         /\ payments[i].status_payment = "verified")
        => bookings[payments[i].booking_id].payment_status # "unpaid"

\* C36: a status update or a cancellation that is answered as failed (500) leaves
\* the booking as it was when the request read it, also when the store fails
\* after the status was written and before the notification is inserted.
FailureLeavesBooking ==
    [][\A p \in Procs :
          (/\ procs[p].op \in {"status", "cancel"}
           /\ ~Free(p)
           /\ procs'[p] = Done(procs[p].op, 500))
          => /\ bookings' = bookings
             /\ procs[p].op = "status"
                => bookings[procs[p].loc.id].status_booking = procs[p].loc.status_booking]_vars

\* the user ids of the two parties of the stored bookings
PartyUserIds ==
    {bookings[i].user_id : i \in 1..Len(bookings)}
        \cup {drivers[bookings[i].driver_id].user_id : i \in 1..Len(bookings)}

\* C37: every notification is addressed to the user id of a party of a booking;
\* a status update notifies the requester, and a cancellation by the requester
\* that has passed its checks notifies the account of the booking's driver.
NotificationAddressing ==
    [][/\ \A n \in notifications' : n[1] \in PartyUserIds
       /\ \A p \in Procs :
            (At(p, "status", "notify") /\ procs'[p] # procs[p])
            => <<bookings[procs[p].loc.id].user_id, "Update Booking">> \in notifications'
       /\ \A p \in Procs :
            (At(p, "cancel", "update") /\ procs'[p] # procs[p])
            => <<drivers[bookings[procs[p].loc.id].driver_id].user_id, "Booking Dibatalkan">>
                  \in notifications']_vars

\* C38: a submitPayment that is refused writes nothing, and one by transfer or
\* e-wallet stores its payment as pending and leaves the booking's payment status
\* as it was.
SubmitLeavesStatus ==
    [][\A p \in Procs :
          /\ (Free(p) /\ procs'[p] # procs[p] /\ procs'[p].op = "submit"
              /\ procs'[p].res \in {400, 404})
             => bookings' = bookings /\ payments' = payments
          /\ (At(p, "submit", "insert") /\ procs[p].loc.payment_method # "cash"
              /\ procs'[p] # procs[p])
             => /\ bookings' = bookings
                /\ procs'[p] = Done("submit", 201)
                /\ payments'[Len(payments')].status_payment = "pending"]_vars

\* an e-wallet settlement of the whole price is stored as pending and answered
\* 201 while the booking is unpaid
SubmitLeavesStatusWitness ==
    /\ procs[1] = Done("submit", 201)
    /\ Len(payments) = 1
    /\ payments[1].payment_method = "e-wallet"
    /\ payments[1].payment_type = "pelunasan"
    /\ payments[1].jumlah = bookings[1].total_harga
    /\ payments[1].status_payment = "pending"
    /\ bookings[1].payment_status = "unpaid"

\* C39: in every state, also while submissions and verifications run at the same
\* time, a booking whose payment status is paid has verified payments that add up
\* to at least its total price.
PaidIsCovered ==
    \A b \in 1..Len(bookings) :
        bookings[b].payment_status = "paid"
        => VerifiedSum(payments, b, 0) >= bookings[b].total_harga

\* the order of the payment statuses
PaymentRank(s) == CASE s = "unpaid" -> 0 [] s = "dp_paid" -> 1 [] s = "paid" -> 2

\* C40: the stored payment status of a booking only advances, from unpaid to
\* dp_paid to paid: no submission and no verification sets it back.
PaymentStatusAdvances ==
    [][\A b \in 1..Len(bookings) :
          PaymentRank(bookings'[b].payment_status)
              >= PaymentRank(bookings[b].payment_status)]_vars

====
